---- MODULE Spec2Model ----
(***************************************************************************)
(* Model of `kubectl create persistentvolumeclaim`                         *)
(* (pkg/cmd/create/create_persistentvolumeclaim.go).                       *)
(*                                                                         *)
(* Go strings that the code inspects character by character (capacity      *)
(* literals, the comma separated access-mode list) are sequences of        *)
(* one-character strings; strings that the code only tests for emptiness   *)
(* and copies (name, namespace, storage class) are TLA+ strings.           *)
(* A parsed resource.Quantity is its numeric value: a sign and the         *)
(* magnitude in nano units (10^-9), written as a sequence of decimal       *)
(* digits, most significant first, because the values exceed 32 bits.      *)
(***************************************************************************)
EXTENDS Integers, Sequences, FiniteSets, TLC

VARIABLES
    o,        \* the CreatePersistentVolumeClaimOptions
    pc,       \* position of the execution
    steps,    \* the methods entered so far, in order
    valErr,   \* what Validate returned
    pv,       \* the claim createPersistentVolumeClaim returned: << >> is nil
    pvErr,    \* the error createPersistentVolumeClaim returned
    created,  \* the claim the client's Create returned: << >> is none
    runErr,   \* the error the failing step returned (NoErr: none)
    calls     \* the calls made to the client and to PrintObj, in order

vars == <<o, pc, steps, valErr, pv, pvErr, created, runErr, calls>>

---------------------------------------------------------------------------
(* Characters and strings                                                  *)

Str0 == << >>

Digits == {"0", "1", "2", "3", "4", "5", "6", "7", "8", "9"}

IsDigit(c) == c \in Digits

DigitVal(c) ==
    CASE c = "0" -> 0 [] c = "1" -> 1 [] c = "2" -> 2 [] c = "3" -> 3
      [] c = "4" -> 4 [] c = "5" -> 5 [] c = "6" -> 6 [] c = "7" -> 7
      [] c = "8" -> 8 [] c = "9" -> 9

\* str[from:to) of Go, with 1-based positions: characters from..to-1
Slice(str, from, to) == SubSeq(str, from, to - 1)

\* first position >= i whose character fails P, or Len(str)+1
RECURSIVE ScanDigits(_, _)
ScanDigits(str, i) ==
    IF i > Len(str) \/ ~IsDigit(str[i]) THEN i ELSE ScanDigits(str, i + 1)

RECURSIVE ScanZeroes(_, _)
ScanZeroes(str, i) ==
    IF i > Len(str) \/ str[i] # "0" THEN i ELSE ScanZeroes(str, i + 1)

SuffixChars == {"e", "E", "i", "n", "u", "m", "k", "K", "M", "G", "T", "P"}

RECURSIVE ScanSuffixChars(_, _)
ScanSuffixChars(str, i) ==
    IF i > Len(str) \/ str[i] \notin SuffixChars THEN i
    ELSE ScanSuffixChars(str, i + 1)

\* strings.Split(s, ","): the pieces between commas; always at least one piece
RECURSIVE SplitFrom(_, _, _)
SplitFrom(s, i, cur) ==
    IF i > Len(s) THEN <<cur>>
    ELSE IF s[i] = "," THEN <<cur>> \o SplitFrom(s, i + 1, Str0)
    ELSE SplitFrom(s, i + 1, Append(cur, s[i]))

Split(s) == SplitFrom(s, 1, Str0)

---------------------------------------------------------------------------
(* Natural numbers as decimal digit sequences (most significant first,     *)
(* no leading zero; zero is the empty sequence)                            *)

RECURSIVE StripZeros(_)
StripZeros(d) == IF d # << >> /\ Head(d) = 0 THEN StripZeros(Tail(d)) ELSE d

\* the digits of the decimal literal cs (characters)
DigitsOf(cs) == StripZeros([i \in 1..Len(cs) |-> DigitVal(cs[i])])

\* d * k + carry for a small k, working from the least significant digit
RECURSIVE MulSmallRev(_, _, _)
MulSmallRev(d, k, carry) ==
    IF d = << >> THEN
        IF carry = 0 THEN << >>
        ELSE Append(MulSmallRev(<< >>, k, carry \div 10), carry % 10)
    ELSE LET v == d[Len(d)] * k + carry
         IN  Append(MulSmallRev(SubSeq(d, 1, Len(d) - 1), k, v \div 10), v % 10)

MulSmall(d, k) == StripZeros(MulSmallRev(d, k, 0))

\* d * 2^e for e a multiple of 10
RECURSIVE Shl(_, _)
Shl(d, e) == IF e <= 0 THEN d ELSE Shl(MulSmall(d, 1024), e - 10)

\* d * 10^p
Zeros(p) == [i \in 1..p |-> 0]
Mul10(d, p) == IF d = << >> THEN d ELSE d \o Zeros(p)

\* ceil(d / 10^p): inf.RoundUp rounds away from zero
DivCeil10(d, p) ==
    LET keep == IF Len(d) > p THEN SubSeq(d, 1, Len(d) - p) ELSE << >>
        drop == IF Len(d) > p THEN SubSeq(d, Len(d) - p + 1, Len(d)) ELSE d
        inexact == \E i \in 1..Len(drop) : drop[i] # 0
    IN  IF inexact THEN MulSmallRev(keep, 1, 1) ELSE keep

\* -1, 0, 1 as a is less than, equal to, greater than b
RECURSIVE CmpDigits(_, _, _)
CmpDigits(a, b, i) ==
    IF i > Len(a) THEN 0
    ELSE IF a[i] < b[i] THEN -1
    ELSE IF a[i] > b[i] THEN 1
    ELSE CmpDigits(a, b, i + 1)

CmpNat(a, b) ==
    IF Len(a) < Len(b) THEN -1
    ELSE IF Len(a) > Len(b) THEN 1
    ELSE CmpDigits(a, b, 1)

---------------------------------------------------------------------------
(* Errors: the message, and the %s argument of a formatted message         *)

Err(m, a) == [msg |-> m, arg |-> a]

NoErr == Err("", Str0)

ErrFormatWrong == Err("quantities must match the regular expression", Str0)
ErrNumeric == Err("unable to parse numeric part of quantity", Str0)
ErrSuffix == Err("unable to parse quantity's suffix", Str0)

---------------------------------------------------------------------------
(* resource.ParseQuantity and Quantity.Cmp, as parseResources uses them    *)

Quantity(n, d) == [neg |-> n, nano |-> d]

ZeroQuantity == Quantity(FALSE, << >>)

\* what parseQuantityString returns; value is the numeric text, sign included
PQS(str, v, n, d, s, e) ==
    [positive |-> ~(Len(str) >= 1 /\ str[1] = "-"), value |-> v, num |-> n,
     denom |-> d, suffix |-> s, err |-> e]

\* the suffix str[j:], once its characters k.. are known not to be suffix
\* letters: an optional sign and digits may follow, nothing else
pqsSuffix(str, n, d, j, k) ==
    IF k > Len(str)
       \/ ScanDigits(str, IF str[k] \in {"-", "+"} THEN k + 1 ELSE k) > Len(str)
    THEN PQS(str, Slice(str, 1, j), n, d, Slice(str, j, Len(str) + 1), FALSE)
    ELSE PQS(str, Slice(str, 1, j), n, d, Str0, TRUE)

\* the denominator str[i+1:j) after a decimal point at i (none when j = i)
pqsDenom(str, n, i, j) ==
    IF j > i /\ j > Len(str) THEN PQS(str, str, n, Slice(str, i + 1, j), Str0, FALSE)
    ELSE pqsSuffix(str, n, IF j > i THEN Slice(str, i + 1, j) ELSE Str0, j,
                   ScanSuffixChars(str, j))

\* the numerator str[p1:i), "0" when it is empty
pqsNum(str, p1, i) ==
    IF i > Len(str) THEN PQS(str, str, Slice(str, p1, i), Str0, Str0, FALSE)
    ELSE pqsDenom(str, IF i = p1 THEN <<"0">> ELSE Slice(str, p1, i), i,
                  IF str[i] = "." THEN ScanDigits(str, i + 1) ELSE i)

\* after the sign and the leading zeros, which end at p1
pqsZeroes(str, p1) ==
    IF p1 > Len(str) THEN PQS(str, <<"0">>, <<"0">>, Str0, Str0, FALSE)
    ELSE pqsNum(str, p1, ScanDigits(str, p1))

\* splits a literal into sign, numerator, denominator and suffix
parseQuantityString(str) ==
    pqsZeroes(str, ScanZeroes(str, IF Len(str) >= 1 /\ str[1] \in {"-", "+"}
                                   THEN 2 ELSE 1))

DecSuffixes == { <<Str0, 0>>, <<<<"n">>, -9>>, <<<<"u">>, -6>>, <<<<"m">>, -3>>,
                 <<<<"k">>, 3>>, <<<<"M">>, 6>>, <<<<"G">>, 9>>, <<<<"T">>, 12>>,
                 <<<<"P">>, 15>>, <<<<"E">>, 18>> }

BinSuffixes == { <<<<"K", "i">>, 10>>, <<<<"M", "i">>, 20>>, <<<<"G", "i">>, 30>>,
                 <<<<"T", "i">>, 40>>, <<<<"P", "i">>, 50>>, <<<<"E", "i">>, 60>> }

\* the largest int64 and the magnitude of the smallest, as digits
MaxInt64 == <<9, 2, 2, 3, 3, 7, 2, 0, 3, 6, 8, 5, 4, 7, 7, 5, 8, 0, 7>>
MinInt64Magnitude == <<9, 2, 2, 3, 3, 7, 2, 0, 3, 6, 8, 5, 4, 7, 7, 5, 8, 0, 8>>

\* the low 32 bits of the number with digits ds, as two 16-bit halves
RECURSIVE Low32(_, _, _)
Low32(ds, hi, lo) ==
    IF ds = << >> THEN <<hi, lo>>
    ELSE Low32(Tail(ds), (hi * 10 + ((lo * 10 + Head(ds)) \div 65536)) % 65536,
               (lo * 10 + Head(ds)) % 65536)

\* the 32-bit two's complement pattern hi:lo read as a signed number
Signed32(hi, lo) ==
    IF hi >= 32768 THEN (hi - 65536) * 65536 + lo ELSE hi * 65536 + lo

\* the pattern of the negated number
Neg32(hi, lo) ==
    Signed32((65535 - hi + (IF lo = 0 THEN 1 ELSE 0)) % 65536,
             (65536 - lo) % 65536)

\* int32(parsed): the conversion keeps the low 32 bits of the int64
Int32(negative, w) ==
    IF negative THEN Neg32(w[1], w[2]) ELSE Signed32(w[1], w[2])

\* the value is within the int64 range
InInt64(negative, ds) ==
    CmpNat(ds, IF negative THEN MinInt64Magnitude ELSE MaxInt64) <= 0

piBody(negative, body) ==
    IF body = << >> \/ \E x \in 1..Len(body) : ~IsDigit(body[x])
    THEN [ok |-> FALSE, val |-> 0]
    ELSE IF ~InInt64(negative, DigitsOf(body))
    THEN [ok |-> FALSE, val |-> 0]
    ELSE [ok |-> TRUE, val |-> Int32(negative, Low32(DigitsOf(body), 0, 0))]

\* strconv.ParseInt(s, 10, 64) followed by int32(parsed): ok is FALSE on a
\* syntax error and on a value outside the int64 range
ParseInt(s) ==
    IF Len(s) >= 1 /\ s[1] \in {"-", "+"}
    THEN piBody(s[1] = "-", Tail(s))
    ELSE piBody(FALSE, s)

\* suffixHandler.interpret: base, exponent and format of a suffix
interpret(suffix) ==
    LET dec == {e \in DecSuffixes : e[1] = suffix}
        bin == {e \in BinSuffixes : e[1] = suffix}
        S(b, e, f, k) == [base |-> b, exponent |-> e, format |-> f, ok |-> k]
    IN  IF dec # {} THEN S(10, (CHOOSE e \in dec : TRUE)[2], "DecimalSI", TRUE)
        ELSE IF bin # {} THEN S(2, (CHOOSE e \in bin : TRUE)[2], "BinarySI", TRUE)
        ELSE IF Len(suffix) > 1 /\ suffix[1] \in {"E", "e"}
             THEN LET n == ParseInt(Tail(suffix))
                  IN  S(IF n.ok THEN 10 ELSE 0, n.val, "DecimalExponent", n.ok)
        ELSE S(0, 0, "DecimalExponent", FALSE)

\* maxAllowed: the largest int64, in nano units
MaxAllowedNano == MaxInt64 \o Zeros(9)

\* BinarySI values are capped at maxAllowed
CapBinary(format, nano) ==
    IF format = "BinarySI" /\ CmpNat(nano, MaxAllowedNano) > 0
    THEN MaxAllowedNano ELSE nano

\* scaled * 10^p, rounded up to a whole number of nano units
RoundNano(scaled, p) ==
    IF p >= 0 THEN Mul10(scaled, p) ELSE DivCeil10(scaled, 0 - p)

SignedQuantity(positive, nano) == Quantity(~positive /\ nano # << >>, nano)

\* the value a literal denotes, in nano units
QuantityValue(pq, si) ==
    SignedQuantity(pq.positive,
        CapBinary(si.format,
            RoundNano(Shl(DigitsOf(pq.num \o pq.denom),
                          IF si.base = 2 THEN si.exponent ELSE 0),
                      9 + (IF si.base = 10 THEN si.exponent ELSE 0)
                        - Len(pq.denom))))

QResult(q, e) == [q |-> q, err |-> e]

\* the int64 fast path is taken when the literal has few enough digits
FastPath(pq, si) ==
    /\ IF si.format = "BinarySI"
       THEN /\ si.exponent >= 0 /\ Len(pq.denom) = 0
            /\ 15 - Len(pq.num) - ((si.exponent * 3) \div 10) - 1 >= 0
       ELSE 18 - (Len(pq.num) + Len(pq.denom)) >= 0
    /\ (IF si.format = "BinarySI" THEN 0 ELSE si.exponent) - Len(pq.denom) >= -9

\* inf.Dec.SetString(value) needs a digit
Numeric(value) == \E x \in 1..Len(value) : IsDigit(value[x])

pqInterpreted(pq, si) ==
    IF ~si.ok THEN QResult(ZeroQuantity, ErrSuffix)
    ELSE IF ~FastPath(pq, si) /\ ~Numeric(pq.value)
         THEN QResult(ZeroQuantity, ErrNumeric)
    ELSE QResult(QuantityValue(pq, si), NoErr)

pqSplit(pq) ==
    IF pq.err THEN QResult(ZeroQuantity, ErrFormatWrong)
    ELSE pqInterpreted(pq, interpret(pq.suffix))

ParseQuantity(str) ==
    IF Len(str) = 0 THEN QResult(ZeroQuantity, ErrFormatWrong)
    ELSE IF str = <<"0">> THEN QResult(ZeroQuantity, NoErr)
    ELSE pqSplit(parseQuantityString(str))

\* a.Cmp(b): -1, 0, 1
Cmp(a, b) ==
    IF a.neg /\ ~b.neg THEN -1
    ELSE IF ~a.neg /\ b.neg THEN 1
    ELSE IF a.neg THEN CmpNat(b.nano, a.nano)
    ELSE CmpNat(a.nano, b.nano)

---------------------------------------------------------------------------
(* Validate                                                                *)

ROX == <<"R", "e", "a", "d", "O", "n", "l", "y", "M", "a", "n", "y">>
RWX == <<"R", "e", "a", "d", "W", "r", "i", "t", "e", "M", "a", "n", "y">>
RWO == <<"R", "e", "a", "d", "W", "r", "i", "t", "e", "O", "n", "c", "e">>

\* a mode left out of the list
validModesWithoutMany == {ROX, RWO}

validModes == {ROX, RWX, RWO}

\* the first element of aml outside validModes, as the loop meets it: << >> if none
RECURSIVE FirstInvalid(_)
FirstInvalid(aml) ==
    IF aml = << >> THEN << >>
    ELSE IF Head(aml) \notin validModes THEN <<Head(aml)>>
    ELSE FirstInvalid(Tail(aml))

NameMissing(opts) == opts.Name = ""

\* the second operand tests the limit instead of repeating the request
StorageRequestAndLimitMissing(opts) ==
    Len(opts.StorageRequest) = 0 /\ Len(opts.StorageLimit) = 0

StorageRequestMissing(opts) ==
    Len(opts.StorageRequest) = 0 /\ Len(opts.StorageRequest) = 0

\* the storage-request rule tested before the name rule
ValidateStorageFirst(opts) ==
    IF StorageRequestMissing(opts)
    THEN Err("storage-request must be specified", Str0)
    ELSE IF NameMissing(opts) THEN Err("name must be specified", Str0)
    ELSE IF Len(opts.AccessModes) # 0 /\ FirstInvalid(Split(opts.AccessModes)) # << >>
         THEN Err("provided access mode %s is invalid",
                  FirstInvalid(Split(opts.AccessModes))[1])
    ELSE NoErr

Validate(opts) ==
    IF NameMissing(opts) THEN Err("name must be specified", Str0)
    ELSE IF StorageRequestMissing(opts)
         THEN Err("storage-request must be specified", Str0)
    ELSE IF Len(opts.AccessModes) # 0
         THEN LET bad == FirstInvalid(Split(opts.AccessModes))
              IN  IF bad # << >>
                  THEN Err("provided access mode %s is invalid", bad[1])
                  ELSE NoErr
    ELSE NoErr

---------------------------------------------------------------------------
(* createPersistentVolumeClaim                                             *)

\* a corev1.ResourceList: the set of its <<resource name, quantity>> entries
NoList == {}
StorageList(q) == { <<"storage", q>> }

NoRequirements == [Requests |-> NoList, Limits |-> NoList]

\* an equal limit let through: flag < 0
LimitTooLowOnlyWhenLess(rl, rr) == Cmp(rl, rr) < 0

\* rl.Cmp(rr) < 1
LimitTooLow(rl, rr) == Cmp(rl, rr) < 1

LimitError == Err("Resource limit is the same/less than the resource request", Str0)

RResult(requests, limits, e) ==
    [vrr |-> [Requests |-> requests, Limits |-> limits], err |-> e]

\* the request stored as the limit
prLimitStoresRequest(rr, rl) ==
    IF rl.err # NoErr THEN RResult(StorageList(rr), NoList, rl.err)
    ELSE IF LimitTooLow(rl.q, rr) THEN RResult(StorageList(rr), NoList, LimitError)
    ELSE RResult(StorageList(rr), StorageList(rr), NoErr)

\* the limit, when one is given: rr is the parsed request
prLimit(rr, rl) ==
    IF rl.err # NoErr THEN RResult(StorageList(rr), NoList, rl.err)
    ELSE IF LimitTooLow(rl.q, rr) THEN RResult(StorageList(rr), NoList, LimitError)
    ELSE RResult(StorageList(rr), StorageList(rl.q), NoErr)

\* a parse error of the request dropped: the zero quantity is used
prRequestIgnoresError(opts, rr) ==
    IF Len(opts.StorageLimit) # 0
    THEN prLimit(rr.q, ParseQuantity(opts.StorageLimit))
    ELSE RResult(StorageList(rr.q), NoList, NoErr)

prRequest(opts, rr) ==
    IF rr.err # NoErr THEN RResult(NoList, NoList, rr.err)
    ELSE IF Len(opts.StorageLimit) # 0
         THEN prLimit(rr.q, ParseQuantity(opts.StorageLimit))
    ELSE RResult(StorageList(rr.q), NoList, NoErr)

parseResources(opts) == prRequest(opts, ParseQuantity(opts.StorageRequest))

\* tokens outside the valid modes dropped
parseAccessModesValidOnly(opts) ==
    SelectSeq(Split(opts.AccessModes), LAMBDA am : am \in validModes)

parseAccessModes(opts) == Split(opts.AccessModes)

\* the enforce flag ignored
EffectiveNamespaceAlways(opts) == opts.Namespace

EffectiveNamespace(opts) == IF opts.EnforceNamespace THEN opts.Namespace ELSE ""

\* a *corev1.PersistentVolumeClaim is << >> (nil) or <<claim>>; a nil slice is
\* << >>, a nil *string is {}
PVCResult(p, e) == [pvc |-> p, err |-> e]

\* the storage class attached without the emptiness test
cpvcAlwaysStorageClass(opts, ps) ==
    IF ps.err # NoErr THEN PVCResult(<< >>, ps.err)
    ELSE PVCResult(<<[APIVersion |-> "v1", Kind |-> "PersistentVolumeClaim",
                      Name |-> opts.Name, Namespace |-> EffectiveNamespace(opts),
                      Annotations |-> {}, UID |-> "",
                      Resources |-> ps.vrr,
                      AccessModes |-> IF Len(opts.AccessModes) # 0
                                      THEN parseAccessModes(opts) ELSE << >>,
                      StorageClassName |-> {opts.StorageClassName}]>>,
                   NoErr)

cpvcResources(opts, ps) ==
    IF ps.err # NoErr THEN PVCResult(<< >>, ps.err)
    ELSE PVCResult(<<[APIVersion |-> "v1", Kind |-> "PersistentVolumeClaim",
                      Name |-> opts.Name, Namespace |-> EffectiveNamespace(opts),
                      Annotations |-> {}, UID |-> "",
                      Resources |-> ps.vrr,
                      AccessModes |-> IF Len(opts.AccessModes) # 0
                                      THEN parseAccessModes(opts) ELSE << >>,
                      StorageClassName |-> IF opts.StorageClassName # ""
                                           THEN {opts.StorageClassName} ELSE {}]>>,
                   NoErr)

createPersistentVolumeClaim(opts) == cpvcResources(opts, parseResources(opts))

---------------------------------------------------------------------------
(* Inputs                                                                  *)

\* the most access-mode tokens in one --access-modes value
MaxTokens == 2

RWB == <<"R", "e", "a", "d", "W", "r", "i", "t", "e", "B", "o", "t", "h">>

Tokens == {RWO, ROX, RWX, RWB, Str0}

RECURSIVE Join(_)
Join(ts) ==
    IF Len(ts) = 1 THEN ts[1] ELSE ts[1] \o <<",">> \o Join(Tail(ts))

TokenLists == UNION { [1..n -> Tokens] : n \in 1..MaxTokens }

AccessModeInputs == { Join(ts) : ts \in TokenLists }

\* an exponent literal whose exponent is 2^63, outside the int64 range
ExponentOutOfRange ==
    <<"1", "e", "9", "2", "2", "3", "3", "7", "2", "0", "3", "6", "8", "5", "4",
      "7", "7", "5", "8", "0", "8">>

\* an exponent literal whose exponent is 2^32: its low 32 bits are zero
ExponentWraps ==
    <<"1", "e", "4", "2", "9", "4", "9", "6", "7", "2", "9", "6">>

\* --storage-request values: binary, decimal, sub-nano, above the int64
\* range and exponent literals, the empty string, a malformed literal, one
\* without a numeric part and one with an exponent out of range
RequestInputs ==
    { Str0, <<"5", "G", "i">>, <<"5", "G">>, <<"0", ".", "1", "n">>,
      <<"8", "E", "i">>, <<"1", "6", "E", "i">>, <<"1", "e", "3">>,
      <<"5", "G", "b">>, <<"P", "i">>, ExponentOutOfRange }

\* --storage-limit values: the same magnitude in the same and in another
\* notation, larger and smaller ones, a decimal one above the int64 range, a
\* negative one, an unknown suffix and an exponent that wraps to zero
LimitInputs ==
    { Str0, <<"5", "G", "i">>, <<"5", "1", "2", "0", "M", "i">>,
      <<"1", "0", "G", "i">>, <<"0", ".", "2", "n">>, <<"1", "6", "E", "i">>,
      <<"1", "0", "E">>, <<"1", "0", "0", "0">>, <<"-", "1", "K", "i">>,
      <<"5", "K">>, ExponentWraps }

\* the capacity flags the command is run with
FlagRequests == { Str0, <<"5", "G", "i">>, <<"5", "G", "b">> }
FlagLimits ==
    { Str0, <<"5", "1", "2", "0", "M", "i">>, <<"1", "0", "G", "i">>,
      <<"5", "K">> }

Names == {"", "test-pvc"}
Namespaces == {"", "ns1"}
StorageClassNames == {"", "test-class"}
DryRunStrategies == {"none", "client", "server"}
ValidationDirectives == {"Strict", "Warn", "Ignore"}

Options(requests, limits) ==
    [Name : Names, Namespace : Namespaces, EnforceNamespace : BOOLEAN,
     StorageRequest : requests, StorageLimit : limits,
     StorageClassName : StorageClassNames, AccessModes : AccessModeInputs,
     DryRunStrategy : {"none"}, CreateAnnotation : {FALSE},
     FieldManager : {"kubectl-create"}, ValidationDirective : {""}]

Did(step) == \E i \in 1..Len(steps) : steps[i] = step

---------------------------------------------------------------------------
(* The two functions called directly, as the tests call them               *)

InitUnit ==
    /\ o \in Options(RequestInputs, LimitInputs)
    /\ pc = "test"
    /\ steps = << >>
    /\ valErr = NoErr
    /\ pv = << >>
    /\ pvErr = NoErr
    /\ created = << >>
    /\ runErr = NoErr
    /\ calls = << >>

TestValidate ==
    /\ pc = "test"
    /\ ~Did("Validate")
    /\ valErr' = Validate(o)
    /\ steps' = Append(steps, "Validate")
    /\ UNCHANGED <<o, pc, pv, pvErr, created, runErr, calls>>

TestCreate ==
    /\ pc = "test"
    /\ ~Did("createPersistentVolumeClaim")
    /\ LET r == createPersistentVolumeClaim(o)
       IN  pv' = r.pvc /\ pvErr' = r.err
    /\ steps' = Append(steps, "createPersistentVolumeClaim")
    /\ UNCHANGED <<o, pc, valErr, created, runErr, calls>>

NextUnit == TestValidate \/ TestCreate

SpecUnit == InitUnit /\ [][NextUnit]_vars

---------------------------------------------------------------------------
(* One execution of the command: Complete, Validate, Run, each under       *)
(* cmdutil.CheckErr, which ends the process on an error                    *)

Init ==
    /\ o \in { x \in Options(FlagRequests, FlagLimits) :
                 x.Name = "" /\ x.Namespace = "" /\ ~x.EnforceNamespace }
    /\ pc = "start"
    /\ steps = << >>
    /\ valErr = NoErr
    /\ pv = << >>
    /\ pvErr = NoErr
    /\ created = << >>
    /\ runErr = NoErr
    /\ calls = << >>

\* o after Complete has assigned these fields
Completing(opts, name, annotate, dry, ns, enforce, directive) ==
    [opts EXCEPT !.Name = name, !.CreateAnnotation = annotate,
                 !.DryRunStrategy = dry, !.Namespace = ns,
                 !.EnforceNamespace = enforce,
                 !.ValidationDirective = directive]

\* Complete returns an error with o as it was assigned so far; CheckErr ends
\* the process
CompleteFails(assigned, msg) ==
    /\ pc = "start"
    /\ o' = assigned
    /\ pc' = "exit"
    /\ steps' = Append(steps, "Complete")
    /\ runErr' = Err(msg, Str0)
    /\ UNCHANGED <<valErr, pv, pvErr, created, calls>>

\* Complete fails before it has assigned anything (NameFromCommandArgs)
CompleteNameError == CompleteFails(o, "exactly one NAME is required")

\* Complete fails in ToRESTConfig or NewForConfig, after it has assigned the name
CompleteError ==
    \E name \in Names :
        CompleteFails([o EXCEPT !.Name = name], "client configuration error")

\* GetDryRunStrategy fails: the name and CreateAnnotation are assigned, and
\* DryRunStrategy is the DryRunNone returned with the error
CompleteDryRunError ==
    \E name \in Names, annotate \in BOOLEAN :
        CompleteFails(Completing(o, name, annotate, "none", o.Namespace,
                                 o.EnforceNamespace, o.ValidationDirective),
                      "invalid dry-run value")

\* the namespace lookup fails: Namespace and EnforceNamespace are whatever the
\* loader returned with the error
CompleteNamespaceError ==
    \E name \in Names, annotate \in BOOLEAN, dry \in DryRunStrategies,
       ns \in Namespaces, enforce \in BOOLEAN :
        CompleteFails(Completing(o, name, annotate, dry, ns, enforce,
                                 o.ValidationDirective),
                      "namespace lookup error")

\* PrintFlags.ToPrinter fails
CompletePrinterError ==
    \E name \in Names, annotate \in BOOLEAN, dry \in DryRunStrategies,
       ns \in Namespaces, enforce \in BOOLEAN :
        CompleteFails(Completing(o, name, annotate, dry, ns, enforce,
                                 o.ValidationDirective),
                      "printer error")

\* GetValidationDirective fails: ValidationDirective is the Strict returned
\* with the error
CompleteValidationError ==
    \E name \in Names, annotate \in BOOLEAN, dry \in DryRunStrategies,
       ns \in Namespaces, enforce \in BOOLEAN :
        CompleteFails(Completing(o, name, annotate, dry, ns, enforce, "Strict"),
                      "invalid validation option")

Complete ==
    /\ pc = "start"
    /\ \E name \in Names, annotate \in BOOLEAN, dry \in DryRunStrategies,
          ns \in Namespaces, enforce \in BOOLEAN,
          directive \in ValidationDirectives :
         o' = Completing(o, name, annotate, dry, ns, enforce, directive)
    /\ pc' = "completed"
    /\ steps' = Append(steps, "Complete")
    /\ UNCHANGED <<valErr, pv, pvErr, created, runErr, calls>>

\* the error of Validate not checked: the execution goes on to Run
RunValidateUnchecked ==
    /\ pc = "completed"
    /\ valErr' = Validate(o)
    /\ pc' = "validated"
    /\ runErr' = NoErr
    /\ steps' = Append(steps, "Validate")
    /\ UNCHANGED <<o, pv, pvErr, created, calls>>

RunValidate ==
    /\ pc = "completed"
    /\ valErr' = Validate(o)
    /\ pc' = IF valErr' = NoErr THEN "validated" ELSE "exit"
    /\ runErr' = valErr'
    /\ steps' = Append(steps, "Validate")
    /\ UNCHANGED <<o, pv, pvErr, created, calls>>

LastApplied == "kubectl.kubernetes.io/last-applied-configuration"

\* util.CreateOrUpdateAnnotation, when it returns no error
Annotate(flag, claim) ==
    IF flag THEN [claim EXCEPT !.Annotations = {LastApplied}] ELSE claim

\* the claim as Run holds it after CreateOrUpdateAnnotation
Annotated(flag, p) == IF p = << >> THEN p ELSE <<Annotate(flag, p[1])>>

\* the error util.CreateOrUpdateAnnotation may return
AnnotationError == Err("annotation error", Str0)

\* Run up to the call of the client: the claim is built and annotated; Run
\* returns the error of either step
RunBuild ==
    /\ pc = "validated"
    /\ \E annErr \in {NoErr, AnnotationError} :
         LET r == createPersistentVolumeClaim(o)
         IN  /\ pvErr' = r.err
             /\ pv' = IF annErr = NoErr
                      THEN Annotated(o.CreateAnnotation, r.pvc) ELSE r.pvc
             /\ runErr' = IF r.err # NoErr THEN r.err ELSE annErr
    /\ pc' = IF runErr' = NoErr THEN "built" ELSE "exit"
    /\ steps' = steps \o <<"Run", "createPersistentVolumeClaim">>
    /\ UNCHANGED <<o, valErr, created, calls>>

createOptions(opts) ==
    [FieldManager |-> opts.FieldManager,
     FieldValidation |-> opts.ValidationDirective,
     DryRun |-> IF opts.DryRunStrategy = "server" THEN <<"All">> ELSE << >>]

NoOptions == [FieldManager |-> "", FieldValidation |-> "", DryRun |-> << >>]

Call(op, ns, obj, opts) == [op |-> op, ns |-> ns, obj |-> obj, opts |-> opts]

\* the claim submitted whatever the dry-run strategy is
RunCreateAlways ==
    /\ pc = "built"
    /\ calls' = Append(calls, Call("Create", o.Namespace, pv[1], createOptions(o)))
    /\ \E ok \in BOOLEAN :
         IF ok
         THEN /\ created' = <<[pv[1] EXCEPT !.UID = "uid-1"]>>
              /\ pc' = "created"
              /\ runErr' = NoErr
         ELSE /\ created' = << >>
              /\ pc' = "exit"
              /\ runErr' = Err("failed to create persistentVolumeClaim %v",
                               <<"s", "e", "r", "v", "e", "r">>)
    /\ UNCHANGED <<o, steps, valErr, pv, pvErr>>

\* Client.PersistentVolumeClaims(o.Namespace).Create: the server stores the
\* claim and returns it, or refuses it
RunCreate ==
    /\ pc = "built"
    /\ o.DryRunStrategy # "client"
    /\ calls' = Append(calls, Call("Create", o.Namespace, pv[1], createOptions(o)))
    /\ \E ok \in BOOLEAN :
         IF ok
         THEN /\ created' = <<[pv[1] EXCEPT !.UID = "uid-1"]>>
              /\ pc' = "created"
              /\ runErr' = NoErr
         ELSE /\ created' = << >>
              /\ pc' = "exit"
              /\ runErr' = Err("failed to create persistentVolumeClaim %v",
                               <<"s", "e", "r", "v", "e", "r">>)
    /\ UNCHANGED <<o, steps, valErr, pv, pvErr>>

\* return o.PrintObj(pv)
RunPrint ==
    /\ \/ pc = "built" /\ o.DryRunStrategy = "client"
       \/ pc = "created"
    /\ calls' = Append(calls, Call("PrintObj", "",
                                   IF pc = "created" THEN created[1] ELSE pv[1],
                                   NoOptions))
    /\ \E e \in {NoErr, Err("print error", Str0)} :
         /\ runErr' = e
         /\ pc' = IF e = NoErr THEN "done" ELSE "exit"
    /\ UNCHANGED <<o, steps, valErr, pv, pvErr, created>>

Next ==
    \/ CompleteNameError
    \/ CompleteError
    \/ CompleteDryRunError
    \/ CompleteNamespaceError
    \/ CompletePrinterError
    \/ CompleteValidationError
    \/ Complete
    \/ RunValidate
    \/ RunBuild
    \/ RunCreate
    \/ RunPrint

Spec == Init /\ [][Next]_vars

---------------------------------------------------------------------------
(* Properties                                                              *)

Validated == Did("Validate")
Built == Did("createPersistentVolumeClaim")

\* what the quantity parser makes of each capacity flag value, computed once
ParsedInputs == [c \in RequestInputs \cup LimitInputs |-> ParseQuantity(c)]

Request == ParsedInputs[o.StorageRequest]
Limit == ParsedInputs[o.StorageLimit]

Parsed(r) == r.err = NoErr

AllowedAccessModes ==
    { <<"R", "e", "a", "d", "O", "n", "l", "y", "M", "a", "n", "y">>,
      <<"R", "e", "a", "d", "W", "r", "i", "t", "e", "M", "a", "n", "y">>,
      <<"R", "e", "a", "d", "W", "r", "i", "t", "e", "O", "n", "c", "e">> }

NameError == Err("name must be specified", Str0)
StorageRequestError == Err("storage-request must be specified", Str0)
AccessModeError(token) == Err("provided access mode %s is invalid", token)

Commas(str) == Cardinality({i \in 1..Len(str) : str[i] = ","})

Min(S) == CHOOSE x \in S : \A y \in S : x <= y

FiveGi == <<"5", "G", "i">>
FiveGiNano == <<5, 3, 6, 8, 7, 0, 9, 1, 2, 0>> \o Zeros(9)
TenGiNano == <<1, 0, 7, 3, 7, 4, 1, 8, 2, 4, 0>> \o Zeros(9)

\* The number a literal denotes as it is written, before the parser rounds
\* or caps it: digits * 10^exp, with a binary suffix multiplied in
WrittenNumber(positive, d, e) ==
    [neg |-> ~positive /\ d # << >>, digits |-> d, exp |-> e]

WrittenAs(pq, si) ==
    WrittenNumber(pq.positive,
                  Shl(DigitsOf(pq.num \o pq.denom),
                      IF si.base = 2 THEN si.exponent ELSE 0),
                  (IF si.base = 10 THEN si.exponent ELSE 0) - Len(pq.denom))

WrittenSplit(pq) == WrittenAs(pq, interpret(pq.suffix))

Written(str) == WrittenSplit(parseQuantityString(str))

\* the literals whose exponent is the one written (the parser keeps only the
\* low 32 bits of the exponent of ExponentWraps)
WrittenLiterals == (RequestInputs \cup LimitInputs) \ {ExponentWraps}

\* the written number of each such capacity flag value, computed once
WrittenInputs == [c \in WrittenLiterals |-> Written(c)]

AlignedTo(w, e) == Quantity(w.neg, Mul10(w.digits, w.exp - e))

\* -1, 0, 1 as the written number a is less than, equal to, greater than b
CmpWritten(a, b) ==
    Cmp(AlignedTo(a, Min({a.exp, b.exp})), AlignedTo(b, Min({a.exp, b.exp})))

\* both capacities parse, and the limit as written compares to the request
\* as written as the set says
WrittenLimitIs(r, l, outcomes) ==
    /\ Parsed(r) /\ Parsed(l)
    /\ o.StorageLimit \in WrittenLiterals
    /\ CmpWritten(WrittenInputs[o.StorageLimit],
                  WrittenInputs[o.StorageRequest]) \in outcomes

\* the claim of C1 as stated, with the magnitude of a capacity string read as
\* the number it denotes: a limit not above the request makes the build fail
C1_Original ==
    (Built /\ Len(o.StorageLimit) # 0 /\ WrittenLimitIs(Request, Limit, {-1, 0}))
        => (pvErr = LimitError /\ pv = << >>)

LimitNotAbove(r, l) ==
    /\ Parsed(r)
    /\ Len(o.StorageLimit) # 0
    /\ Parsed(l)
    /\ Cmp(l.q, r.q) <= 0

\* C1: once the claim has been built from a parsable request and a non-empty
\* parsable limit whose parsed value is not above the request's parsed value,
\* the build has returned the limit-comparison error and a nil claim,
\* whatever the units.
C1_LimitNotAboveRequestFails ==
    (Built /\ LimitNotAbove(Request, Limit)) => (pvErr = LimitError /\ pv = << >>)

\* request "5Gi", limit "5120Mi": equal magnitudes in different units
C1_Witness ==
    /\ Built
    /\ o.StorageRequest = FiveGi
    /\ o.StorageLimit = <<"5", "1", "2", "0", "M", "i">>
    /\ Limit.q.nano = FiveGiNano
    /\ pvErr = LimitError
    /\ pv = << >>

\* the claim of C2 as stated, with the magnitude of a capacity string read as
\* the number it denotes: a limit above the request makes the build succeed
\* with the parsed request and the parsed limit in the claim
C2_Original ==
    (Built /\ WrittenLimitIs(Request, Limit, {1}))
        => /\ pvErr = NoErr
           /\ pv # << >>
           /\ pv[1].Resources.Requests = { <<"storage", Request.q>> }
           /\ pv[1].Resources.Limits = { <<"storage", Limit.q>> }

C2_Holds(r, l) ==
    (Parsed(r) /\ Parsed(l) /\ Cmp(l.q, r.q) > 0)
    => /\ pvErr = NoErr
       /\ pv # << >>
       /\ pv[1].Resources.Requests = { <<"storage", r.q>> }
       /\ pv[1].Resources.Limits = { <<"storage", l.q>> }

\* C2: once the claim has been built from a parsable request and a parsable
\* limit whose parsed value is strictly greater than the request's parsed
\* value, the build has succeeded and the claim
\* holds exactly the parsed request under requests[storage] and exactly the
\* parsed limit under limits[storage].
C2_LimitAboveRequestSucceeds == Built => C2_Holds(Request, Limit)

\* request "5Gi", limit "10Gi"
C2_Witness ==
    /\ Built
    /\ o.StorageRequest = FiveGi
    /\ o.StorageLimit = <<"1", "0", "G", "i">>
    /\ pvErr = NoErr
    /\ pv # << >>
    /\ pv[1].Resources.Requests = { <<"storage", Quantity(FALSE, FiveGiNano)>> }
    /\ pv[1].Resources.Limits = { <<"storage", Quantity(FALSE, TenGiNano)>> }

\* C3: once Validate has run on options with an empty Name, it has returned
\* "name must be specified", whatever StorageRequest and AccessModes hold.
C3_EmptyNameReportedFirst ==
    (Validated /\ o.Name = "") => valErr = NameError

\* empty name, empty storage request and an invalid access mode together
C3_Witness ==
    /\ Validated
    /\ o.Name = ""
    /\ Len(o.StorageRequest) = 0
    /\ o.AccessModes = RWB
    /\ valErr = NameError

\* C4: once Validate has run, it has returned "storage-request must be
\* specified" if Name is non-empty and StorageRequest is empty, whatever
\* AccessModes holds, and it has not returned that error if StorageRequest is
\* non-empty.
C4_EmptyStorageRequestRejected ==
    Validated =>
        /\ (o.Name # "" /\ Len(o.StorageRequest) = 0)
               => valErr = StorageRequestError
        /\ Len(o.StorageRequest) # 0 => valErr # StorageRequestError

\* named options without a storage request but with a limit and an invalid mode
C4_Witness ==
    /\ Validated
    /\ o.Name # ""
    /\ Len(o.StorageRequest) = 0
    /\ Len(o.StorageLimit) # 0
    /\ o.AccessModes = RWB
    /\ valErr = StorageRequestError

\* C5: once Validate has run on options with a Name and a StorageRequest, it
\* has returned nil exactly if AccessModes is empty or every comma separated
\* token is an allowed mode, and otherwise the access-mode error naming the
\* leftmost token that is not allowed.
C5_AccessModesChecked ==
    (Validated /\ o.Name # "" /\ Len(o.StorageRequest) # 0) =>
        LET toks == Split(o.AccessModes)
            bad == {i \in 1..Len(toks) : toks[i] \notin AllowedAccessModes}
        IN  IF Len(o.AccessModes) = 0 \/ bad = {}
            THEN valErr = NoErr
            ELSE valErr = AccessModeError(toks[Min(bad)])

\* "ReadWriteMany,ReadWriteBoth": a valid token, then the offending one
C5_Witness ==
    /\ Validated
    /\ o.Name # ""
    /\ Len(o.StorageRequest) # 0
    /\ o.AccessModes = RWX \o <<",">> \o RWB
    /\ valErr = AccessModeError(RWB)

\* C6: a claim that has been built successfully always holds
\* requests[storage], and holds limits, access modes and a storage class name
\* exactly if the StorageLimit, AccessModes and StorageClassName strings are
\* non-empty; the storage class name is the given one.
C6_OptionalFieldsFollowInputs ==
    (Built /\ pvErr = NoErr) =>
        /\ pv # << >>
        /\ pv[1].Resources.Requests = { <<"storage", Request.q>> }
        /\ (pv[1].Resources.Limits # {}) <=> (Len(o.StorageLimit) # 0)
        /\ (pv[1].AccessModes # << >>) <=> (Len(o.AccessModes) # 0)
        /\ pv[1].StorageClassName =
               (IF o.StorageClassName = "" THEN {} ELSE {o.StorageClassName})

\* only a storage request supplied
C6_Witness ==
    /\ Built
    /\ o.StorageRequest = FiveGi
    /\ Len(o.StorageLimit) = 0
    /\ Len(o.AccessModes) = 0
    /\ o.StorageClassName = ""
    /\ pv # << >>
    /\ pv[1].Resources = [Requests |-> { <<"storage", Quantity(FALSE, FiveGiNano)>> },
                          Limits |-> {}]
    /\ pv[1].AccessModes = << >>
    /\ pv[1].StorageClassName = {}

\* C7: the namespace of a built claim is the options' Namespace if
\* EnforceNamespace is set and empty otherwise; its name is the options' Name
\* and its apiVersion and kind are "v1" and "PersistentVolumeClaim".
C7_NamespaceOnlyWhenEnforced ==
    (Built /\ pv # << >>) =>
        /\ pv[1].Namespace = (IF o.EnforceNamespace THEN o.Namespace ELSE "")
        /\ pv[1].Name = o.Name
        /\ pv[1].APIVersion = "v1"
        /\ pv[1].Kind = "PersistentVolumeClaim"

\* a namespace is known but not enforced
C7_Witness ==
    /\ Built
    /\ pv # << >>
    /\ o.Namespace = "ns1"
    /\ ~o.EnforceNamespace
    /\ pv[1].Namespace = ""
    /\ pv[1].Name = o.Name

StepOrder == <<"Complete", "Validate", "Run", "createPersistentVolumeClaim">>

C8_State ==
    /\ Len(steps) <= Len(StepOrder)
    /\ \A i \in 1..Len(steps) : steps[i] = StepOrder[i]
    /\ runErr # NoErr => pc = "exit"
    /\ (Validated /\ valErr # NoErr)
           => /\ ~Did("Run") /\ ~Built
              /\ pv = << >> /\ calls = << >>
              /\ runErr = valErr
    /\ (Built /\ pvErr # NoErr)
           => /\ pv = << >> /\ calls = << >>
              /\ runErr = pvErr

\* C8: the steps of one execution run in the order Complete, Validate, Run; a
\* step that returned an error is the last one: no step is taken after it.
\* After an error of Validate the claim is never built and the client never
\* called; after an error of createPersistentVolumeClaim neither Create nor
\* PrintObj is ever called and Run's error is that error.
C8_FailingStepStopsExecution == []C8_State /\ [][pc # "exit"]_vars

\* the build has failed inside Run, after Complete and Validate succeeded
C8_Witness ==
    /\ steps = StepOrder
    /\ valErr = NoErr
    /\ pvErr # NoErr
    /\ runErr = pvErr
    /\ pc = "exit"
    /\ calls = << >>

CapacitiesValidFor(r, l) ==
    /\ Parsed(r)
    /\ Len(o.StorageLimit) = 0 \/ (Parsed(l) /\ Cmp(l.q, r.q) > 0)

CapacitiesValid == CapacitiesValidFor(Request, Limit)

\* C9: once the claim has been built from valid capacities and a non-empty
\* AccessModes, the build has succeeded and the claim's access modes are the
\* comma separated pieces of AccessModes: one more than there are commas, none
\* holding a comma, and giving AccessModes back when joined by commas in
\* order; tokens that are not allowed, empty or repeated are kept as they are.
C9_AccessModesCarriedVerbatim ==
    (Built /\ Len(o.AccessModes) # 0 /\ CapacitiesValid) =>
        /\ pvErr = NoErr
        /\ pv # << >>
        /\ Len(pv[1].AccessModes) = Commas(o.AccessModes) + 1
        /\ \A i \in 1..Len(pv[1].AccessModes) : Commas(pv[1].AccessModes[i]) = 0
        /\ Join(pv[1].AccessModes) = o.AccessModes

\* "ReadWriteBoth,": a token that is not allowed and an empty one
C9_Witness ==
    /\ Built
    /\ CapacitiesValid
    /\ o.AccessModes = RWB \o <<",">>
    /\ pvErr = NoErr
    /\ pv # << >>
    /\ pv[1].AccessModes = <<RWB, Str0>>

AllAllowed(toks) == \A i \in 1..Len(toks) : toks[i] \in AllowedAccessModes

AccessModesAccepted(opts) ==
    Len(opts.AccessModes) = 0 \/ AllAllowed(Split(opts.AccessModes))

\* a capacity flag that is given and that the quantity parser rejects: the
\* request, or the limit of a parsable request
BadCapacityFor(r, l) ==
    \/ Len(o.StorageRequest) # 0 /\ ~Parsed(r)
    \/ Parsed(r) /\ Len(o.StorageLimit) # 0 /\ ~Parsed(l)

BadCapacity == BadCapacityFor(Request, Limit)

\* what the build returns for an unparsable capacity: the parser's error for
\* the first unparsable flag, and a nil claim
BuildRejectsFor(r, l) ==
    /\ pv = << >>
    /\ pvErr # NoErr
    /\ pvErr = (IF ~Parsed(r) THEN r.err ELSE l.err)

BuildRejects == BuildRejectsFor(Request, Limit)

\* C10 as stated: with a Name and an unparsable capacity, Validate has
\* returned nil whatever the other fields hold, and the build has returned
\* the parse error and a nil claim.
C10_Original ==
    /\ (Validated /\ o.Name # "" /\ BadCapacity) => valErr = NoErr
    /\ (Built /\ BadCapacity) => BuildRejects

\* C10, amended: with a Name and an unparsable capacity, Validate has returned
\* nil provided AccessModes is empty or holds only allowed modes, and the
\* build has returned the parse error and a nil claim.
C10_BadCapacityRejectedOnlyAtBuild ==
    /\ (Validated /\ o.Name # "" /\ BadCapacity /\ AccessModesAccepted(o))
           => valErr = NoErr
    /\ (Built /\ BadCapacity) => BuildRejects

\* request "5Gb" has passed Validate and has been refused by the build
C10_Witness ==
    /\ Validated
    /\ Built
    /\ o.Name # ""
    /\ o.StorageRequest = <<"5", "G", "b">>
    /\ valErr = NoErr
    /\ pvErr = ErrFormatWrong
    /\ pv = << >>

CallsOf(op) == {i \in 1..Len(calls) : calls[i].op = op}

\* Run has returned the error of util.CreateOrUpdateAnnotation
AnnotateFailed == runErr = AnnotationError

\* Run is past a successful build: it has returned or has called the client
PastBuild ==
    \/ pc \in {"created", "done"}
    \/ pc = "exit" /\ Built /\ pvErr = NoErr

\* Run has passed the point where it submits the claim or skips that
Submitting == PastBuild /\ ~AnnotateFailed

CreateFailed == runErr.msg = "failed to create persistentVolumeClaim %v"

\* the Create call Run makes, if any: the first call, with the built claim
CreateCallAsBuilt ==
    \A i \in CallsOf("Create") :
        /\ i = 1
        /\ Built /\ pvErr = NoErr /\ pv # << >>
        /\ calls[i].obj = pv[1]
        /\ calls[i].ns = o.Namespace
        /\ o.DryRunStrategy \in {"none", "server"}
        /\ calls[i].opts.DryRun =
               (IF o.DryRunStrategy = "server" THEN <<"All">> ELSE << >>)

\* what PrintObj receives, and that it follows a Create that succeeded
PrintCallAfterCreate ==
    \A i \in CallsOf("PrintObj") :
        IF o.DryRunStrategy = "client"
        THEN i = 1 /\ calls[i].obj = pv[1]
        ELSE /\ i = 2 /\ CallsOf("Create") = {1}
             /\ created # << >>
             /\ calls[i].obj = created[1]

\* the claim of C11 as stated: every Run that built the claim calls Create
\* exactly if the dry-run strategy is not client
C11_Original ==
    /\ Cardinality(CallsOf("Create")) <= 1
    /\ Cardinality(CallsOf("PrintObj")) <= 1
    /\ CreateCallAsBuilt
    /\ PastBuild => ((CallsOf("Create") # {}) <=> (o.DryRunStrategy # "client"))
    /\ PrintCallAfterCreate
    /\ CreateFailed => (CallsOf("PrintObj") = {} /\ CallsOf("Create") = {1})

\* C11: Run calls the client's Create at most once, only after the claim has
\* been built, with the built claim, and, unless the annotation step returned
\* an error (then neither Create nor PrintObj is called), exactly if the
\* dry-run strategy is not client: with client dry-run nothing is submitted
\* and PrintObj receives the built claim; with server dry-run Create gets
\* DryRun = All and with none it gets no DryRun; after a Create PrintObj
\* receives the claim Create returned, and it is not called if Create failed.
C11_CreateFollowsDryRunStrategy ==
    /\ Cardinality(CallsOf("Create")) <= 1
    /\ Cardinality(CallsOf("PrintObj")) <= 1
    /\ CreateCallAsBuilt
    /\ Submitting => ((CallsOf("Create") # {}) <=> (o.DryRunStrategy # "client"))
    /\ AnnotateFailed => (Built /\ pvErr = NoErr /\ calls = << >>)
    /\ PrintCallAfterCreate
    /\ CreateFailed => (CallsOf("PrintObj") = {} /\ CallsOf("Create") = {1})

\* a server dry-run: Create was called with DryRun = All, PrintObj got its result
C11_Witness ==
    /\ pc = "done"
    /\ o.DryRunStrategy = "server"
    /\ Len(calls) = 2
    /\ calls[1].op = "Create"
    /\ calls[1].opts.DryRun = <<"All">>
    /\ calls[1].obj = pv[1]
    /\ calls[2].op = "PrintObj"
    /\ calls[2].obj = created[1]
    /\ created[1].UID # pv[1].UID

====
